---- MODULE Spec2Model ----
(***************************************************************************)
(* Model of pkg/volume/util/types/types.go: GeneratedOperations.Run with   *)
(* its deferred hooks and panic recovery, and the OperationTimedOutError   *)
(* classification (NewOperationTimedOutError, IsOperationTimeOutError).    *)
(*                                                                         *)
(* An error value is a record [kind, msg, wraps]: kind is the dynamic Go   *)
(* type of the value, msg the text Error() returns (a sequence of tokens), *)
(* wraps the dynamic types of the errors reachable through Unwrap().       *)
(***************************************************************************)
EXTENDS Integers, Sequences, FiniteSets, TLC

VARIABLES
    env,          \* env[i]: the fields of GeneratedOperations value i
    budget,       \* budget[i]: how many times the caller will call Run on i
    calls,        \* calls[i]: calls of Run on i started so far
    pc,           \* pc[i]: position of the goroutine running env[i].Run
    eventErr,     \* eventErr[f]: named result eventErr of the call in frame f
    detailedErr,  \* detailedErr[f]: named result detailedErr of that call
    deferred,     \* deferred[i]: the defer stack of the call (last = top)
    panicking,    \* panicking[i]: the panic in flight in the goroutine
    opOutcome,    \* opOutcome[i]: what OperationFunc did in this call
    hookSaw,      \* hookSaw[i]: what each hook read through its pointer
    hookDid,      \* hookDid[i]: what each hook did when invoked
    log,          \* log[i]: the events of this call, in order
    result,       \* result[i]: the pair the call returned to its caller
    escaped,      \* escaped[i]: the panic that left Run, if any
    cerr,         \* the error a caller hands to IsOperationTimeOutError
    cres,         \* <<b>> once IsOperationTimeOutError(cerr) returned b
    timedOut,     \* timedOut[i]: the timeout the caller recorded for the call
    status        \* an OperationStatus value a caller holds

vars == <<env, budget, calls, pc, eventErr, detailedErr, deferred, panicking,
          opOutcome, hookSaw, hookDid, log, result, escaped, cerr, cres,
          timedOut, status>>

runVars == <<env, budget, calls, pc, eventErr, detailedErr, deferred,
             panicking, opOutcome, hookSaw, hookDid, log, result, escaped>>

----------------------------------------------------------------------------
(* Bounds *)

NumEnvs == 2
MaxCalls == 2
MaxMsgs == 3
MaxWrap == 2

Envs == 1..NumEnvs
Msgs == 1..MaxMsgs

----------------------------------------------------------------------------
(* Error values *)

\* the nil error interface value
NilErr == [kind |-> "nil", msg |-> <<>>, wraps |-> <<>>]

\* marker: no panic in flight, nothing observed, nothing returned
NoValue == [kind |-> "none", msg |-> <<>>, wraps |-> <<>>]

\* an ordinary error (errors.New / fmt.Errorf without %w)
ErrorString(text) == [kind |-> "errorString", msg |-> text, wraps |-> <<>>]

\* an error of another kind wrapping e (fmt.Errorf with %w)
WrapError(text, e) ==
    [kind |-> "wrapError", msg |-> text \o e.msg, wraps |-> <<e.kind>> \o e.wraps]

OperationTimedOutError(msg) ==
    [kind |-> "OperationTimedOutError", msg |-> msg, wraps |-> <<>>]

NewOperationTimedOutError(msg) == OperationTimedOutError(msg)

\* errors.As-style classification: also true for an error that wraps one
IsOperationTimeOutErrorUnwrapping(err) ==
    \/ err.kind = "OperationTimedOutError"
    \/ \E k \in 1..Len(err.wraps) : err.wraps[k] = "OperationTimedOutError"

\* a classification by err != nil instead of by dynamic type
IsOperationTimeOutErrorOfAnyError(err) == err # NilErr

IsOperationTimeOutError(err) == err.kind = "OperationTimedOutError"

----------------------------------------------------------------------------
(* type OperationStatus string *)

OperationFinished == "Finished"
OperationInProgress == "InProgress"
OperationStateNoChange == "NoChange"

OperationStatus ==
    {OperationFinished, OperationInProgress, OperationStateNoChange}

----------------------------------------------------------------------------
(* The values the closures of envelope i produce *)

Tag(i) == ToString(i)

\* a func field is nil, or holds a closure: "set" is one that deals in
\* errors other than timeouts, "timeouts" one that also builds
\* NewOperationTimedOutError values
FuncValues == {"nil", "set"}
TimeoutFuncValues == {"nil", "timeouts"}

TimedOut(f, msg) ==
    IF f = "timeouts" THEN {NewOperationTimedOutError(msg)} ELSE {}

\* what OperationFunc f of envelope i may return in each slot
EventErrs(i, f) ==
    {NilErr, ErrorString(<<"event", Tag(i)>>)}
    \cup TimedOut(f, <<"event timed out", Tag(i)>>)
DetailedErrs(i, f) ==
    {NilErr, ErrorString(<<"detailed", Tag(i)>>)}
    \cup TimedOut(f, <<"detailed timed out", Tag(i)>>)

\* the values OperationFunc of envelope i may panic with: a string, or an
\* error that is itself an *OperationTimedOutError
PanicValues(i, f) ==
    {[kind |-> "string", msg |-> <<"boom", Tag(i)>>, wraps |-> <<>>]}
    \cup TimedOut(f, <<"panic timed out", Tag(i)>>)

\* the run-time panic of calling a nil func value
NilFuncPanic ==
    [kind |-> "runtime.Error", msg |-> <<"nil pointer dereference">>, wraps |-> <<>>]

\* a hook func(*error) may read *err, assign to *err, or panic
HookBehaviours == {"read", "write", "panic"}
HookAssigns(i, h, f) ==
    {ErrorString(<<h, "assigned", Tag(i)>>)}
    \cup TimedOut(f, <<h, "assigned timed out", Tag(i)>>)
HookPanics(i, h) == [kind |-> "string", msg |-> <<h, "panicked", Tag(i)>>, wraps |-> <<>>]

GeneratedOperations ==
    [OperationName : {"op"}, OperationFunc : FuncValues,
     EventRecorderFunc : FuncValues, CompleteFunc : FuncValues]

AllSet ==
    [OperationName |-> "op", OperationFunc |-> "set",
     EventRecorderFunc |-> "set", CompleteFunc |-> "set"]

----------------------------------------------------------------------------
(* Go semantics used by Run *)

\* runtime.RecoverFromPanic(&err) when recover() returned r: *err becomes an
\* error built from r and the previous *err
RecoverFromPanic(r, err) ==
    ErrorString(<<"recovered from panic">> \o r.msg \o <<"err=">> \o err.msg)

\* the named results of a call live in that call's own frame
SharedFrame(i) == 1

Frame(i) == i

\* deferred calls run last-in first-out
FirstDeferred(stack) == stack[1]

TopDeferred(stack) == stack[Len(stack)]

RestDeferred(stack) == SubSeq(stack, 1, Len(stack) - 1)

\* a hook is handed &eventErr / &detailedErr: it reads the slot as it is when
\* the hook runs, not as it was when the defer statement ran
EventArgByValue(i) == NilErr

EventArg(i) == eventErr[Frame(i)]

CompleteArg(i) == detailedErr[Frame(i)]

NoOutcome == [kind |-> "none", e1 |-> NoValue, e2 |-> NoValue, v |-> NoValue]
NoHooks == [event |-> NoValue, complete |-> NoValue]
NoActs == [event |-> "none", complete |-> "none"]
NoResult == [eventErr |-> NoValue, detailedErr |-> NoValue]

\* no timeout recorded; a recorded one holds the error and the number of
\* events of the call that had happened when the caller recorded it
NoTimeout == [err |-> NilErr, at |-> 0]

----------------------------------------------------------------------------
(* Initial states: the caller's plan *)

\* one caller calls Run up to MaxCalls times on one envelope of any shape
InitSeq ==
    /\ budget = [i \in Envs |-> IF i = 1 THEN MaxCalls ELSE 0]
    /\ env \in {f \in [Envs -> GeneratedOperations] :
                   \A i \in Envs : i # 1 => f[i] = AllSet}

\* NumEnvs goroutines each call Run once on their own envelope
InitConc ==
    /\ budget = [i \in Envs |-> 1]
    /\ env = [i \in Envs |-> AllSet]

InitRun ==
    /\ calls = [i \in Envs |-> 0]
    /\ pc = [i \in Envs |-> "idle"]
    /\ eventErr = [i \in Envs |-> NilErr]
    /\ detailedErr = [i \in Envs |-> NilErr]
    /\ deferred = [i \in Envs |-> <<>>]
    /\ panicking = [i \in Envs |-> NoValue]
    /\ opOutcome = [i \in Envs |-> NoOutcome]
    /\ hookSaw = [i \in Envs |-> NoHooks]
    /\ hookDid = [i \in Envs |-> NoActs]
    /\ log = [i \in Envs |-> <<>>]
    /\ result = [i \in Envs |-> NoResult]
    /\ escaped = [i \in Envs |-> NoValue]
    /\ timedOut = [i \in Envs |-> NoTimeout]

Init ==
    /\ InitSeq \/ InitConc
    /\ InitRun
    /\ cerr = NilErr
    /\ cres = <<>>
    /\ status = OperationStateNoChange

----------------------------------------------------------------------------
(* func (o *GeneratedOperations) Run() (eventErr, detailedErr error) *)

\* line 42: the call enters Run; the named results start as nil
Run(i) ==
    /\ pc[i] \in {"idle", "returned"}
    /\ calls[i] < budget[i]
    /\ calls' = [calls EXCEPT ![i] = @ + 1]
    /\ pc' = [pc EXCEPT ![i] = "L43"]
    /\ eventErr' = [eventErr EXCEPT ![Frame(i)] = NilErr]
    /\ detailedErr' = [detailedErr EXCEPT ![Frame(i)] = NilErr]
    /\ deferred' = [deferred EXCEPT ![i] = <<>>]
    /\ panicking' = [panicking EXCEPT ![i] = NoValue]
    /\ opOutcome' = [opOutcome EXCEPT ![i] = NoOutcome]
    /\ hookSaw' = [hookSaw EXCEPT ![i] = NoHooks]
    /\ hookDid' = [hookDid EXCEPT ![i] = NoActs]
    /\ log' = [log EXCEPT ![i] = <<>>]
    /\ result' = [result EXCEPT ![i] = NoResult]
    /\ escaped' = [escaped EXCEPT ![i] = NoValue]
    /\ timedOut' = [timedOut EXCEPT ![i] = NoTimeout]
    /\ UNCHANGED <<env, budget, cerr, cres, status>>

\* lines 43-45: if o.CompleteFunc != nil { defer o.CompleteFunc(&detailedErr) }
DeferCompleteFuncAlways(i) ==
    /\ pc[i] = "L43"
    /\ deferred' = [deferred EXCEPT ![i] = Append(@, "CompleteFunc")]
    /\ pc' = [pc EXCEPT ![i] = "L46"]
    /\ UNCHANGED <<env, budget, calls, eventErr, detailedErr, panicking,
                   opOutcome, hookSaw, hookDid, log, result, escaped, cerr, cres,
                   timedOut, status>>

\* the hook is taken out of the envelope once it is deferred
DeferCompleteFuncAndClearIt(i) ==
    /\ pc[i] = "L43"
    /\ deferred' = [deferred EXCEPT ![i] =
                       IF env[i].CompleteFunc # "nil"
                       THEN Append(@, "CompleteFunc") ELSE @]
    /\ env' = [env EXCEPT ![i].CompleteFunc = "nil"]
    /\ pc' = [pc EXCEPT ![i] = "L46"]
    /\ UNCHANGED <<budget, calls, eventErr, detailedErr, panicking,
                   opOutcome, hookSaw, hookDid, log, result, escaped, cerr, cres,
                   timedOut, status>>

DeferCompleteFunc(i) ==
    /\ pc[i] = "L43"
    /\ deferred' = [deferred EXCEPT ![i] =
                       IF env[i].CompleteFunc # "nil"
                       THEN Append(@, "CompleteFunc") ELSE @]
    /\ pc' = [pc EXCEPT ![i] = "L46"]
    /\ UNCHANGED <<env, budget, calls, eventErr, detailedErr, panicking,
                   opOutcome, hookSaw, hookDid, log, result, escaped, cerr, cres,
                   timedOut, status>>

\* lines 46-48: if o.EventRecorderFunc != nil { defer o.EventRecorderFunc(&eventErr) }
DeferEventRecorderFuncTwice(i) ==
    /\ pc[i] = "L46"
    /\ deferred' = [deferred EXCEPT ![i] =
                       IF env[i].EventRecorderFunc # "nil"
                       THEN @ \o <<"EventRecorderFunc", "EventRecorderFunc">> ELSE @]
    /\ pc' = [pc EXCEPT ![i] = "L50"]
    /\ UNCHANGED <<env, budget, calls, eventErr, detailedErr, panicking,
                   opOutcome, hookSaw, hookDid, log, result, escaped, cerr, cres,
                   timedOut, status>>

DeferEventRecorderFunc(i) ==
    /\ pc[i] = "L46"
    /\ deferred' = [deferred EXCEPT ![i] =
                       IF env[i].EventRecorderFunc # "nil"
                       THEN Append(@, "EventRecorderFunc") ELSE @]
    /\ pc' = [pc EXCEPT ![i] = "L50"]
    /\ UNCHANGED <<env, budget, calls, eventErr, detailedErr, panicking,
                   opOutcome, hookSaw, hookDid, log, result, escaped, cerr, cres,
                   timedOut, status>>

\* line 50: defer runtime.RecoverFromPanic(&detailedErr)
DeferRecoverFromPanicFirst(i) ==
    /\ pc[i] = "L50"
    /\ deferred' = [deferred EXCEPT ![i] = <<"RecoverFromPanic">> \o @]
    /\ pc' = [pc EXCEPT ![i] = "L51"]
    /\ UNCHANGED <<env, budget, calls, eventErr, detailedErr, panicking,
                   opOutcome, hookSaw, hookDid, log, result, escaped, cerr, cres,
                   timedOut, status>>

DeferRecoverFromPanic(i) ==
    /\ pc[i] = "L50"
    /\ deferred' = [deferred EXCEPT ![i] = Append(@, "RecoverFromPanic")]
    /\ pc' = [pc EXCEPT ![i] = "L51"]
    /\ UNCHANGED <<env, budget, calls, eventErr, detailedErr, panicking,
                   opOutcome, hookSaw, hookDid, log, result, escaped, cerr, cres,
                   timedOut, status>>

\* line 51, OperationFunc returns (e1, e2): the named results are assigned
OperationFuncReturnsSwapped(i, e1, e2) ==
    /\ eventErr' = [eventErr EXCEPT ![Frame(i)] = e2]
    /\ detailedErr' = [detailedErr EXCEPT ![Frame(i)] = e1]
    /\ opOutcome' = [opOutcome EXCEPT ![i] =
                        [kind |-> "return", e1 |-> e1, e2 |-> e2, v |-> NoValue]]
    /\ log' = [log EXCEPT ![i] = Append(@, "OperationFunc")]
    /\ UNCHANGED panicking

OperationFuncReturns(i, e1, e2) ==
    /\ eventErr' = [eventErr EXCEPT ![Frame(i)] = e1]
    /\ detailedErr' = [detailedErr EXCEPT ![Frame(i)] = e2]
    /\ opOutcome' = [opOutcome EXCEPT ![i] =
                        [kind |-> "return", e1 |-> e1, e2 |-> e2, v |-> NoValue]]
    /\ log' = [log EXCEPT ![i] = Append(@, "OperationFunc")]
    /\ UNCHANGED panicking

\* line 51, OperationFunc panics with v: nothing is assigned
OperationFuncPanics(i, v) ==
    /\ panicking' = [panicking EXCEPT ![i] = v]
    /\ opOutcome' = [opOutcome EXCEPT ![i] =
                        [kind |-> "panic", e1 |-> NoValue, e2 |-> NoValue, v |-> v]]
    /\ log' = [log EXCEPT ![i] = Append(@, "OperationFunc")]
    /\ UNCHANGED <<eventErr, detailedErr>>

\* the call of a nil func as a call that does nothing and yields nils
OperationFuncNilYieldsNils(i) ==
    /\ opOutcome' = [opOutcome EXCEPT ![i] =
                        [kind |-> "return", e1 |-> NilErr, e2 |-> NilErr,
                         v |-> NoValue]]
    /\ UNCHANGED <<eventErr, detailedErr, log, panicking>>

\* line 51, o.OperationFunc is nil: the call itself panics
OperationFuncNil(i) ==
    /\ panicking' = [panicking EXCEPT ![i] = NilFuncPanic]
    /\ opOutcome' = [opOutcome EXCEPT ![i] =
                        [kind |-> "panic", e1 |-> NoValue, e2 |-> NoValue,
                         v |-> NilFuncPanic]]
    /\ UNCHANGED <<eventErr, detailedErr, log>>

\* line 51: return o.OperationFunc()
CallOperationFunc(i) ==
    /\ pc[i] = "L51"
    /\ IF env[i].OperationFunc = "nil"
       THEN OperationFuncNil(i)
       ELSE \/ \E e1 \in EventErrs(i, env[i].OperationFunc),
                      e2 \in DetailedErrs(i, env[i].OperationFunc) :
                   OperationFuncReturns(i, e1, e2)
            \/ \E v \in PanicValues(i, env[i].OperationFunc) :
                   OperationFuncPanics(i, v)
    /\ pc' = [pc EXCEPT ![i] = "exiting"]
    /\ UNCHANGED <<env, budget, calls, deferred, hookSaw, hookDid, result,
                   escaped, cerr, cres,
                   timedOut, status>>

\* when the last deferred call has run the call leaves Run: it returns its
\* named results to the caller, or the panic still in flight goes on into
\* the caller
ExitEvent(rest, pan) ==
    IF rest # <<>> THEN <<>>
    ELSE IF pan = NoValue THEN <<"return">> ELSE <<"panic">>

\* results without names: what return o.OperationFunc() evaluated is what
\* the caller gets, whatever the deferred calls assign afterwards
LeaveWithOperationResult(i, rest, ev, de, pan) ==
    /\ deferred' = [deferred EXCEPT ![i] = rest]
    /\ pc' = [pc EXCEPT ![i] =
                 IF rest # <<>> THEN "exiting"
                 ELSE IF pan = NoValue THEN "returned" ELSE "panicked"]
    /\ result' = [result EXCEPT ![i] =
                     IF rest = <<>> /\ pan = NoValue
                     THEN IF opOutcome[i].kind = "return"
                          THEN [eventErr |-> opOutcome[i].e1,
                                detailedErr |-> opOutcome[i].e2]
                          ELSE [eventErr |-> NilErr, detailedErr |-> de]
                     ELSE @]
    /\ escaped' = [escaped EXCEPT ![i] =
                      IF rest = <<>> /\ pan # NoValue THEN pan ELSE @]

\* a panic in a deferred call abandons the deferred calls still pending
LeaveAtOnceWhenPanicking(i, rest, ev, de, pan) ==
    /\ deferred' = [deferred EXCEPT ![i] = IF pan # NoValue THEN <<>> ELSE rest]
    /\ pc' = [pc EXCEPT ![i] =
                 IF pan # NoValue THEN "panicked"
                 ELSE IF rest # <<>> THEN "exiting" ELSE "returned"]
    /\ result' = [result EXCEPT ![i] =
                     IF rest = <<>> /\ pan = NoValue
                     THEN [eventErr |-> ev, detailedErr |-> de] ELSE @]
    /\ escaped' = [escaped EXCEPT ![i] = IF pan # NoValue THEN pan ELSE @]

Leave(i, rest, ev, de, pan) ==
    /\ deferred' = [deferred EXCEPT ![i] = rest]
    /\ pc' = [pc EXCEPT ![i] =
                 IF rest # <<>> THEN "exiting"
                 ELSE IF pan = NoValue THEN "returned" ELSE "panicked"]
    /\ result' = [result EXCEPT ![i] =
                     IF rest = <<>> /\ pan = NoValue
                     THEN [eventErr |-> ev, detailedErr |-> de] ELSE @]
    /\ escaped' = [escaped EXCEPT ![i] =
                      IF rest = <<>> /\ pan # NoValue THEN pan ELSE @]

\* line 50 hands RecoverFromPanic the address of detailedErr
RecoverIntoEventErr == "eventErr"

RecoverTarget == "detailedErr"

\* RecoverFromPanic is itself the deferred function, so the recover() it
\* calls stops a panic in flight; called one frame deeper it would not
RecoverCalledIndirectly(i) == FALSE

\* recover() sees only the panic of the goroutine that calls it
RecoversPanicOfAnyGoroutine(i) == \E j \in Envs : panicking[j] # NoValue

Recovers(i) == panicking[i] # NoValue

\* the deferred runtime.RecoverFromPanic(&detailedErr) runs
RunRecoverFromPanic(i) ==
    /\ pc[i] = "exiting"
    /\ deferred[i] # <<>>
    /\ TopDeferred(deferred[i]) = "RecoverFromPanic"
    /\ LET rest == RestDeferred(deferred[i])
           hit == Recovers(i)
           ev == IF hit /\ RecoverTarget = "eventErr"
                 THEN RecoverFromPanic(panicking[i], eventErr[Frame(i)])
                 ELSE eventErr[Frame(i)]
           de == IF hit /\ RecoverTarget = "detailedErr"
                 THEN RecoverFromPanic(panicking[i], detailedErr[Frame(i)])
                 ELSE detailedErr[Frame(i)]
           pan == IF hit THEN NoValue ELSE panicking[i]
       IN  /\ eventErr' = [eventErr EXCEPT ![Frame(i)] = ev]
           /\ detailedErr' = [detailedErr EXCEPT ![Frame(i)] = de]
           /\ panicking' = [panicking EXCEPT ![i] = pan]
           /\ log' = [log EXCEPT ![i] =
                         @ \o <<"RecoverFromPanic">> \o ExitEvent(rest, pan)]
           /\ Leave(i, rest, ev, de, pan)
    /\ UNCHANGED <<env, budget, calls, opOutcome, hookSaw, hookDid, cerr, cres,
                   timedOut, status>>

\* the deferred o.EventRecorderFunc(&eventErr) runs
RunEventRecorderFunc(i) ==
    /\ pc[i] = "exiting"
    /\ deferred[i] # <<>>
    /\ TopDeferred(deferred[i]) = "EventRecorderFunc"
    /\ \E b \in HookBehaviours, w \in HookAssigns(i, "event", env[i].EventRecorderFunc) :
          LET rest == RestDeferred(deferred[i])
              ev == IF b = "write" THEN w
                    ELSE eventErr[Frame(i)]
              pan == IF b = "panic" THEN HookPanics(i, "event")
                     ELSE panicking[i]
          IN  /\ hookSaw' = [hookSaw EXCEPT ![i].event = EventArg(i)]
              /\ hookDid' = [hookDid EXCEPT ![i].event = b]
              /\ eventErr' = [eventErr EXCEPT ![Frame(i)] = ev]
              /\ panicking' = [panicking EXCEPT ![i] = pan]
              /\ log' = [log EXCEPT ![i] =
                            @ \o <<"EventRecorderFunc">> \o ExitEvent(rest, pan)]
              /\ Leave(i, rest, ev, detailedErr[Frame(i)], pan)
    /\ UNCHANGED <<env, budget, calls, detailedErr, opOutcome, cerr, cres,
                   timedOut, status>>

\* the deferred o.CompleteFunc(&detailedErr) runs
RunCompleteFunc(i) ==
    /\ pc[i] = "exiting"
    /\ deferred[i] # <<>>
    /\ TopDeferred(deferred[i]) = "CompleteFunc"
    /\ \E b \in HookBehaviours, w \in HookAssigns(i, "complete", env[i].CompleteFunc) :
          LET rest == RestDeferred(deferred[i])
              de == IF b = "write" THEN w
                    ELSE detailedErr[Frame(i)]
              pan == IF b = "panic" THEN HookPanics(i, "complete")
                     ELSE panicking[i]
          IN  /\ hookSaw' = [hookSaw EXCEPT ![i].complete = CompleteArg(i)]
              /\ hookDid' = [hookDid EXCEPT ![i].complete = b]
              /\ detailedErr' = [detailedErr EXCEPT ![Frame(i)] = de]
              /\ panicking' = [panicking EXCEPT ![i] = pan]
              /\ log' = [log EXCEPT ![i] =
                            @ \o <<"CompleteFunc">> \o ExitEvent(rest, pan)]
              /\ Leave(i, rest, eventErr[Frame(i)], de, pan)
    /\ UNCHANGED <<env, budget, calls, eventErr, opOutcome, cerr, cres,
                   timedOut, status>>

\* Run takes no context, channel or deadline and reads no flag: nothing
\* outside the call can make it stop between two of its steps
CancelledByTimeout(i) == timedOut[i].err # NilErr

Cancelled(i) == FALSE

\* a step inside the call of Run
RunStep(i) ==
    \/ ~Cancelled(i) /\ DeferCompleteFunc(i)
    \/ ~Cancelled(i) /\ DeferEventRecorderFunc(i)
    \/ ~Cancelled(i) /\ DeferRecoverFromPanic(i)
    \/ ~Cancelled(i) /\ CallOperationFunc(i)
    \/ ~Cancelled(i) /\ RunRecoverFromPanic(i)
    \/ ~Cancelled(i) /\ RunEventRecorderFunc(i)
    \/ ~Cancelled(i) /\ RunCompleteFunc(i)

Step(i) == Run(i) \/ RunStep(i)

Next == \E i \in Envs : Step(i)

Spec == Init /\ [][Next]_vars

----------------------------------------------------------------------------
(* A caller builds error values and classifies them *)

Text(m) == <<"msg", ToString(m)>>

InitClassify ==
    /\ budget = [i \in Envs |-> 0]
    /\ env = [i \in Envs |-> AllSet]
    /\ InitRun
    /\ cerr = NilErr
    /\ cres = <<>>
    /\ status = OperationStateNoChange

\* err := NewOperationTimedOutError(msg)
CallerNewOperationTimedOutError ==
    /\ \E m \in Msgs : cerr' = NewOperationTimedOutError(Text(m))
    /\ cres' = <<>>
    /\ UNCHANGED <<runVars, timedOut, status>>

\* err := an error of some other kind
CallerOtherError ==
    /\ \E m \in Msgs : cerr' = ErrorString(Text(m))
    /\ cres' = <<>>
    /\ UNCHANGED <<runVars, timedOut, status>>

\* err = nil
CallerNilError ==
    /\ cerr # NilErr
    /\ cerr' = NilErr
    /\ cres' = <<>>
    /\ UNCHANGED <<runVars, timedOut, status>>

\* err = fmt.Errorf("...: %w", err)
CallerWrapsError ==
    /\ cerr # NilErr
    /\ Len(cerr.wraps) < MaxWrap
    /\ \E m \in Msgs : cerr' = WrapError(Text(m), cerr)
    /\ cres' = <<>>
    /\ UNCHANGED <<runVars, timedOut, status>>

\* IsOperationTimeOutError(err)
CallerClassifies ==
    /\ cres = <<>>
    /\ cres' = <<IsOperationTimeOutError(cerr)>>
    /\ UNCHANGED cerr
    /\ UNCHANGED <<runVars, timedOut, status>>

NextClassify ==
    \/ CallerNewOperationTimedOutError
    \/ CallerOtherError
    \/ CallerNilError
    \/ CallerWrapsError
    \/ CallerClassifies

SpecClassify == InitClassify /\ [][NextClassify]_vars

----------------------------------------------------------------------------
(* A caller gives up waiting for a call of Run that is still in progress *)

\* envelopes whose closures deal in timed-out errors too
TimeoutOperations ==
    [OperationName : {"op"}, OperationFunc : TimeoutFuncValues,
     EventRecorderFunc : TimeoutFuncValues, CompleteFunc : TimeoutFuncValues]

\* one goroutine calls Run once, on such an envelope of any shape
InitTimeout ==
    /\ budget = [i \in Envs |-> IF i = 1 THEN 1 ELSE 0]
    /\ env \in {f \in [Envs -> TimeoutOperations \cup {AllSet}] :
                   \A i \in Envs : i # 1 => f[i] = AllSet}
    /\ InitRun
    /\ cerr = NilErr
    /\ cres = <<>>
    /\ status = OperationStateNoChange

\* the caller's wait expires while Run(i) is in progress: it records
\* NewOperationTimedOutError(...) for the operation; Run is not told
CallerObservesTimeout(i) ==
    /\ pc[i] \notin {"idle", "returned", "panicked"}
    /\ timedOut[i] = NoTimeout
    /\ timedOut' = [timedOut EXCEPT ![i] =
           [err |-> NewOperationTimedOutError(<<"timeout", Tag(i)>>),
            at |-> Len(log[i])]]
    /\ UNCHANGED <<runVars, cerr, cres, status>>

NextTimeout ==
    \E i \in Envs :
        \/ Run(i)
        \/ RunStep(i)
        \/ CallerObservesTimeout(i)

\* a goroutine inside Run keeps being scheduled, and OperationFunc and the
\* hooks come back (by returning or by panicking)
SpecTimeout ==
    /\ InitTimeout
    /\ [][NextTimeout]_vars
    /\ \A i \in Envs : WF_vars(RunStep(i))

----------------------------------------------------------------------------
(* A caller changes what Run has no business with while Run is in progress *)

OperationNames == {"op", "resize"}

NamedOperations ==
    [OperationName : OperationNames, OperationFunc : FuncValues,
     EventRecorderFunc : FuncValues, CompleteFunc : FuncValues]

\* one caller calls Run up to MaxCalls times on one envelope of any shape
\* and name, holding some OperationStatus value
InitFrame ==
    /\ budget = [i \in Envs |-> IF i = 1 THEN MaxCalls ELSE 0]
    /\ env \in {f \in [Envs -> NamedOperations] :
                   \A i \in Envs : i # 1 => f[i] = AllSet}
    /\ InitRun
    /\ status \in OperationStatus
    /\ cerr = NilErr
    /\ cres = <<>>

\* o.OperationName = n, by whoever holds the envelope
CallerSetsOperationName(i) ==
    /\ budget[i] > 0
    /\ \E n \in OperationNames \ {env[i].OperationName} :
           env' = [env EXCEPT ![i].OperationName = n]
    /\ UNCHANGED <<budget, calls, pc, eventErr, detailedErr, deferred,
                   panicking, opOutcome, hookSaw, hookDid, log, result,
                   escaped, cerr, cres, timedOut, status>>

\* the caller's status variable takes another OperationStatus value
CallerSetsOperationStatus ==
    /\ \E st \in OperationStatus \ {status} : status' = st
    /\ UNCHANGED <<runVars, cerr, cres, timedOut>>

NextFrame ==
    \/ \E i \in Envs : Step(i)
    \/ \E i \in Envs : CallerSetsOperationName(i)
    \/ CallerSetsOperationStatus

SpecFrame == InitFrame /\ [][NextFrame]_vars

----------------------------------------------------------------------------
(* Vocabulary of the properties *)

Count(s, x) == Cardinality({k \in 1..Len(s) : s[k] = x})

\* some x occurs in s before some y
Before(s, x, y) == \E p, q \in 1..Len(s) : p < q /\ s[p] = x /\ s[q] = y

IsPrefix(s, t) == Len(s) <= Len(t) /\ SubSeq(t, 1, Len(s)) = s

\* the text of v occurs in the text of the error e
DerivedFrom(e, v) ==
    /\ e.kind = "errorString"
    /\ Len(v.msg) > 0
    /\ \E k \in 1..(Len(e.msg) - Len(v.msg) + 1) :
           SubSeq(e.msg, k, k + Len(v.msg) - 1) = v.msg

\* the value e carries the tag of an envelope other than i
Foreign(e, i) ==
    \E j \in Envs \ {i} : \E k \in 1..Len(e.msg) : e.msg[k] = Tag(j)

Done(i) == pc[i] \in {"returned", "panicked"}

OpReturned(i) == opOutcome[i].kind = "return"
OpPanicked(i) == opOutcome[i].kind = "panic"

\* a non-nil OperationFunc was invoked and panicked
OperationFuncPanicked(i) == OpPanicked(i) /\ env[i].OperationFunc # "nil"

EventSet(i) == env[i].EventRecorderFunc # "nil"
CompleteSet(i) == env[i].CompleteFunc # "nil"

EventInvoked(i) == hookDid[i].event # "none"
CompleteInvoked(i) == hookDid[i].complete # "none"

NoHookPanicked(i) == hookDid[i].event # "panic" /\ hookDid[i].complete # "panic"

----------------------------------------------------------------------------
(* C1 *)

\* C1 as stated: when OperationFunc returns (e1, e2) without panicking, the
\* pair Run returns is exactly (e1, e2), whatever the hooks do.
C1_ReturnsExactlyOperationResult ==
    \A i \in Envs :
        (pc[i] = "returned" /\ OpReturned(i)) =>
            result[i] = [eventErr |-> opOutcome[i].e1,
                         detailedErr |-> opOutcome[i].e2]

\* C1 amended: when OperationFunc returns (e1, e2) and Run returns, the
\* eventErr Run returns is e1 unless EventRecorderFunc assigned through its
\* pointer, and the detailedErr Run returns is e2 unless CompleteFunc
\* assigned through its pointer: Run itself alters neither.
C1_ReturnsOperationResultUnlessHookAssigns ==
    \A i \in Envs :
        (pc[i] = "returned" /\ OpReturned(i)) =>
            /\ hookDid[i].event # "write" =>
                   result[i].eventErr = opOutcome[i].e1
            /\ hookDid[i].complete # "write" =>
                   result[i].detailedErr = opOutcome[i].e2

C1_Witness ==
    \E i \in Envs :
        /\ pc[i] = "returned" /\ OpReturned(i)
        /\ opOutcome[i].e1 # NilErr /\ opOutcome[i].e2 # NilErr
        /\ opOutcome[i].e1 # opOutcome[i].e2
        /\ hookDid[i] = [event |-> "read", complete |-> "read"]
        /\ result[i] = [eventErr |-> opOutcome[i].e1,
                        detailedErr |-> opOutcome[i].e2]

----------------------------------------------------------------------------
(* C2 *)

\* C2 as stated: when OperationFunc panics with V, Run returns normally, the
\* detailedErr it returns is non-nil and derived from V, and CompleteFunc
\* (if set) observes that same detailedErr.
C2_PanicBecomesReturnedDetailedErr ==
    \A i \in Envs :
        (Done(i) /\ OperationFuncPanicked(i)) =>
            /\ pc[i] = "returned"
            /\ result[i].detailedErr # NilErr
            /\ DerivedFrom(result[i].detailedErr, opOutcome[i].v)
            /\ CompleteSet(i) => hookSaw[i].complete = result[i].detailedErr

\* C2 amended: when OperationFunc panics with V, the panic is recovered
\* before any hook runs, and CompleteFunc (if set) is invoked after the
\* recovery and observes a non-nil detailedErr derived from V; if no hook
\* panics Run returns normally, and the detailedErr it returns is that same
\* error unless CompleteFunc assigned through its pointer.
C2_PanicBecomesDetailedErrUnlessHooksInterfere ==
    \A i \in Envs :
        OpPanicked(i) =>
            /\ CompleteInvoked(i) =>
                   /\ hookSaw[i].complete # NilErr
                   /\ DerivedFrom(hookSaw[i].complete, opOutcome[i].v)
                   /\ Before(log[i], "RecoverFromPanic", "CompleteFunc")
            /\ (Done(i) /\ NoHookPanicked(i)) => pc[i] = "returned"
            /\ (Done(i) /\ CompleteSet(i)) => CompleteInvoked(i)
            /\ (pc[i] = "returned" /\ hookDid[i].complete # "write") =>
                   /\ result[i].detailedErr # NilErr
                   /\ DerivedFrom(result[i].detailedErr, opOutcome[i].v)
                   /\ CompleteSet(i) =>
                          hookSaw[i].complete = result[i].detailedErr

C2_Witness ==
    \E i \in Envs :
        /\ pc[i] = "returned" /\ OpPanicked(i)
        /\ opOutcome[i].v \in PanicValues(i, env[i].OperationFunc)
        /\ CompleteSet(i) /\ hookDid[i].complete = "read"
        /\ result[i].detailedErr # NilErr
        /\ hookSaw[i].complete = result[i].detailedErr

----------------------------------------------------------------------------
(* C3 *)

FullOrder(i) ==
    (IF env[i].OperationFunc # "nil" THEN <<"OperationFunc">> ELSE <<>>)
    \o <<"RecoverFromPanic", "EventRecorderFunc", "CompleteFunc">>

----------------------------------------------------------------------------
(* C4 *)

\* C4 as stated: whatever OperationFunc, EventRecorderFunc and CompleteFunc
\* do when invoked, Run returns normally and no panic leaves it.
C4_NoPanicEscapesRun ==
    \A i \in Envs : env[i].OperationFunc # "nil" => pc[i] # "panicked"

\* C4 amended: no panic raised by OperationFunc ever leaves Run, and when
\* the hooks return without panicking Run returns normally; a panic that
\* leaves Run is one that a hook raised.
C4_OnlyHookPanicsEscapeRun ==
    \A i \in Envs :
        /\ (Done(i) /\ NoHookPanicked(i)) => pc[i] = "returned"
        /\ pc[i] = "panicked" =>
               /\ escaped[i] \in {HookPanics(i, "event"), HookPanics(i, "complete")}
               /\ escaped[i] # opOutcome[i].v
        /\ pc[i] = "returned" => escaped[i] = NoValue

C4_Witness ==
    \E i \in Envs :
        /\ OpPanicked(i) /\ opOutcome[i].v \in PanicValues(i, env[i].OperationFunc)
        /\ pc[i] = "panicked"
        /\ hookDid[i].event = "panic"
        /\ escaped[i] = HookPanics(i, "event")

----------------------------------------------------------------------------
(* C5 *)

Expected(f) == IF f # "nil" THEN 1 ELSE 0

\* C5: in each call of Run, also a repeated one on the same value and also
\* when OperationFunc panics, OperationFunc is invoked exactly once, a set
\* hook exactly once and a nil hook never.
C5_InvocationCounts ==
    \A i \in Envs :
        /\ Count(log[i], "OperationFunc") <= Expected(env[i].OperationFunc)
        /\ Count(log[i], "EventRecorderFunc") <= Expected(env[i].EventRecorderFunc)
        /\ Count(log[i], "CompleteFunc") <= Expected(env[i].CompleteFunc)
        /\ Done(i) =>
               /\ Count(log[i], "OperationFunc") = Expected(env[i].OperationFunc)
               /\ Count(log[i], "EventRecorderFunc") =
                      Expected(env[i].EventRecorderFunc)
               /\ Count(log[i], "CompleteFunc") = Expected(env[i].CompleteFunc)

C5_Witness ==
    \E i \in Envs :
        /\ calls[i] >= 2
        /\ Done(i) /\ OpPanicked(i)
        /\ env[i].OperationFunc # "nil" /\ EventSet(i) /\ ~CompleteSet(i)
        /\ Count(log[i], "OperationFunc") = 1
        /\ Count(log[i], "EventRecorderFunc") = 1
        /\ Count(log[i], "CompleteFunc") = 0

----------------------------------------------------------------------------
(* C6 *)

\* C6: a hook reads through its pointer the value its slot holds once
\* OperationFunc has finished, not the nil the slot held when the hook was
\* deferred: after a return of (e1, e2) EventRecorderFunc reads e1 and
\* CompleteFunc reads e2.
C6_HooksObserveFinalSlots ==
    \A i \in Envs :
        OpReturned(i) =>
            /\ EventInvoked(i) => hookSaw[i].event = opOutcome[i].e1
            /\ CompleteInvoked(i) => hookSaw[i].complete = opOutcome[i].e2

C6_Witness ==
    \E i \in Envs :
        /\ OpReturned(i)
        /\ opOutcome[i].e1 # NilErr /\ opOutcome[i].e2 # NilErr
        /\ EventInvoked(i) /\ hookSaw[i].event = opOutcome[i].e1
        /\ CompleteInvoked(i) /\ hookSaw[i].complete = opOutcome[i].e2

----------------------------------------------------------------------------
(* C7 *)

\* C7: IsOperationTimeOutError(err) is true exactly when err is a value
\* NewOperationTimedOutError made: true for every message, false for nil,
\* for an error of another kind, and for an error of another kind that
\* wraps an OperationTimedOutError.
C7_TimeoutIffExactKind ==
    cres # <<>> =>
        (cres[1] <=> \E m \in Msgs : cerr = NewOperationTimedOutError(Text(m)))

C7_Witness ==
    /\ cres = <<FALSE>>
    /\ cerr.kind = "wrapError"
    /\ cerr.wraps # <<>>
    /\ cerr.wraps[Len(cerr.wraps)] = "OperationTimedOutError"

----------------------------------------------------------------------------
(* C8 *)

OwnResult(i) ==
    IF OpReturned(i)
    THEN result[i] = [eventErr |-> opOutcome[i].e1,
                      detailedErr |-> opOutcome[i].e2]
    ELSE /\ result[i].eventErr = NilErr
         /\ DerivedFrom(result[i].detailedErr, opOutcome[i].v)

Running(i) == pc[i] \notin {"idle", "returned", "panicked"}

\* C8 as stated: of envelopes run concurrently, every Run completes and
\* returns the result of its own OperationFunc (its (e1, e2), or its
\* converted panic).
C8_EachRunReturnsOwnOperationResult ==
    \A i \in Envs :
        (Done(i) /\ env[i].OperationFunc # "nil"
                 /\ \E j \in Envs \ {i} : Running(j)) =>
            (pc[i] = "returned" /\ OwnResult(i))

\* C8 amended: of envelopes run concurrently, under every interleaving no
\* Run is ever blocked, no error value of one run appears in the slots, the
\* result, the escaping panic or the hook observations of another, and each
\* Run whose own hooks neither assign through their pointers nor panic
\* returns the result of its own OperationFunc.
C8_RunsDoNotInterfere ==
    \A i \in Envs :
        /\ ~Foreign(eventErr[i], i) /\ ~Foreign(detailedErr[i], i)
        /\ ~Foreign(result[i].eventErr, i) /\ ~Foreign(result[i].detailedErr, i)
        /\ ~Foreign(hookSaw[i].event, i) /\ ~Foreign(hookSaw[i].complete, i)
        /\ ~Foreign(escaped[i], i) /\ ~Foreign(panicking[i], i)
        /\ Running(i) => ENABLED Step(i)
        /\ (Done(i) /\ hookDid[i].event \in {"none", "read"}
                    /\ hookDid[i].complete \in {"none", "read"}) =>
               (pc[i] = "returned" /\ OwnResult(i))

C8_Witness ==
    \E i, j \in Envs :
        /\ i # j
        /\ pc[i] = "returned" /\ OpReturned(i)
        /\ opOutcome[i].e1 # NilErr /\ opOutcome[i].e2 # NilErr
        /\ hookSaw[i] = [event |-> opOutcome[i].e1, complete |-> opOutcome[i].e2]
        /\ OwnResult(i)
        /\ pc[j] = "exiting" /\ OpPanicked(j)
        /\ hookSaw[j].event = NilErr /\ hookDid[j].complete = "none"

----------------------------------------------------------------------------
(* C9 *)

\* C9: with both hooks nil and an OperationFunc that returns (nil, nil),
\* Run returns (nil, nil), does not panic and invokes no hook; and a nil
\* hook is skipped while OperationFunc and the other hook are still
\* invoked.
C9_NilHooksAreSkipped ==
    \A i \in Envs :
        /\ (~EventSet(i) /\ ~CompleteSet(i) /\ Done(i) /\ OpReturned(i)
              /\ opOutcome[i].e1 = NilErr /\ opOutcome[i].e2 = NilErr) =>
               /\ pc[i] = "returned"
               /\ result[i] = [eventErr |-> NilErr, detailedErr |-> NilErr]
               /\ log[i] = <<"OperationFunc", "RecoverFromPanic", "return">>
        /\ ~EventSet(i) =>
               /\ ~EventInvoked(i) /\ Count(log[i], "EventRecorderFunc") = 0
               /\ Done(i) =>
                      /\ opOutcome[i].kind # "none"
                      /\ CompleteSet(i) => Count(log[i], "CompleteFunc") = 1
        /\ ~CompleteSet(i) =>
               /\ ~CompleteInvoked(i) /\ Count(log[i], "CompleteFunc") = 0
               /\ Done(i) =>
                      /\ opOutcome[i].kind # "none"
                      /\ EventSet(i) => Count(log[i], "EventRecorderFunc") = 1

C9_Witness ==
    \E i \in Envs :
        /\ ~EventSet(i) /\ ~CompleteSet(i)
        /\ pc[i] = "returned" /\ OpReturned(i)
        /\ opOutcome[i].e1 = NilErr /\ opOutcome[i].e2 = NilErr
        /\ result[i] = [eventErr |-> NilErr, detailedErr |-> NilErr]
        /\ log[i] = <<"OperationFunc", "RecoverFromPanic", "return">>

----------------------------------------------------------------------------
(* C10 *)

\* C10 as stated: when OperationFunc panics, EventRecorderFunc (if set) is
\* invoked once, after the recovery and before CompleteFunc, and the
\* eventErr it observes and that Run returns is nil.
C10_PanicDeliversNoEventErr ==
    \A i \in Envs :
        OperationFuncPanicked(i) =>
            /\ EventInvoked(i) => hookSaw[i].event = NilErr
            /\ (Done(i) /\ EventSet(i)) => Count(log[i], "EventRecorderFunc") = 1
            /\ pc[i] = "returned" => result[i].eventErr = NilErr

\* C10 amended: when OperationFunc panics, EventRecorderFunc (if set) is
\* invoked exactly once, after the panic has been recovered and before
\* CompleteFunc, and the eventErr it observes is nil; the eventErr Run
\* returns is nil unless EventRecorderFunc itself assigned an error through
\* its pointer.
C10_PanicDeliversNoEventErrUnlessHookAssigns ==
    \A i \in Envs :
        OpPanicked(i) =>
            /\ EventInvoked(i) =>
                   /\ hookSaw[i].event = NilErr
                   /\ Before(log[i], "RecoverFromPanic", "EventRecorderFunc")
                   /\ panicking[i] # opOutcome[i].v
            /\ CompleteInvoked(i) =>
                   ~Before(log[i], "CompleteFunc", "EventRecorderFunc")
            /\ (CompleteInvoked(i) /\ EventSet(i)) => EventInvoked(i)
            /\ Count(log[i], "EventRecorderFunc") <= 1
            /\ (Done(i) /\ EventSet(i)) => Count(log[i], "EventRecorderFunc") = 1
            /\ (pc[i] = "returned" /\ hookDid[i].event # "write") =>
                   result[i].eventErr = NilErr

C10_Witness ==
    \E i \in Envs :
        /\ OpPanicked(i) /\ opOutcome[i].v \in PanicValues(i, env[i].OperationFunc)
        /\ EventSet(i) /\ hookDid[i].event = "read"
        /\ hookSaw[i].event = NilErr
        /\ pc[i] = "returned"
        /\ result[i].eventErr = NilErr
        /\ result[i].detailedErr # NilErr

----------------------------------------------------------------------------
(* C11 *)

HooksOnlyRead(i) ==
    /\ hookDid[i].event \in {"none", "read"}
    /\ hookDid[i].complete \in {"none", "read"}

\* the panic value of a's OperationFunc shows in the error e
FromPanicOf(e, a) == OpPanicked(a) /\ DerivedFrom(e, opOutcome[a].v)

\* C11 as stated: if A's OperationFunc panics while B's Run is in progress,
\* B's Run completes and returns B's own OperationFunc result unchanged.
C11_OtherRunReturnsOwnResultDespitePanic ==
    \A a, b \in Envs :
        (a # b /\ OperationFuncPanicked(a) /\ calls[b] > 0 /\ Done(b)
               /\ env[b].OperationFunc # "nil") =>
            (pc[b] = "returned" /\ OwnResult(b))

\* C11 amended: if A's OperationFunc panics while B's Run is in progress,
\* in every interleaving B's Run is never blocked, B's hooks fire in order,
\* A's panic shows in none of B's slots, observations, result or escaping
\* panic and is never in flight in B's goroutine, and B returns its own
\* OperationFunc result unless B's own hooks assign through their pointers
\* or panic; A's panic is converted into A's detailedErr and never into A's
\* eventErr.
C11_PanicStaysInItsOwnRun ==
    \A a, b \in Envs :
        (a # b /\ OpPanicked(a)) =>
            /\ Running(b) => ENABLED Step(b)
            /\ \/ IsPrefix(log[b], FullOrder(b) \o <<"return">>)
               \/ IsPrefix(log[b], FullOrder(b) \o <<"panic">>)
               \/ ~(EventSet(b) /\ CompleteSet(b))
            /\ ~FromPanicOf(eventErr[b], a) /\ ~FromPanicOf(detailedErr[b], a)
            /\ ~FromPanicOf(hookSaw[b].event, a)
            /\ ~FromPanicOf(hookSaw[b].complete, a)
            /\ ~FromPanicOf(result[b].eventErr, a)
            /\ ~FromPanicOf(result[b].detailedErr, a)
            /\ panicking[b] # opOutcome[a].v /\ escaped[b] # opOutcome[a].v
            /\ (Done(b) /\ HooksOnlyRead(b)) =>
                   (pc[b] = "returned" /\ OwnResult(b))
            /\ ~FromPanicOf(eventErr[a], a)
            /\ (pc[a] = "exiting" /\ panicking[a] = NoValue
                  /\ hookDid[a].complete = "none") =>
                   FromPanicOf(detailedErr[a], a)

C11_Witness ==
    \E a, b \in Envs :
        /\ a # b
        /\ OperationFuncPanicked(a) /\ pc[a] = "returned"
        /\ FromPanicOf(result[a].detailedErr, a)
        /\ pc[b] = "exiting" /\ OpReturned(b)
        /\ opOutcome[b].e1 # NilErr /\ opOutcome[b].e2 # NilErr
        /\ hookDid[b] = [event |-> "read", complete |-> "none"]
        /\ hookSaw[b].event = opOutcome[b].e1
        /\ detailedErr[b] = opOutcome[b].e2

----------------------------------------------------------------------------
(* C12 *)

TimeoutObserved(i) == IsOperationTimeOutError(timedOut[i].err)

\* every set hook was invoked, EventRecorderFunc before CompleteFunc
SetHooksInvokedInOrder(i) ==
    /\ EventSet(i) => EventInvoked(i)
    /\ CompleteSet(i) => CompleteInvoked(i)
    /\ ~Before(log[i], "CompleteFunc", "EventRecorderFunc")

\* C12 as stated: a caller's timeout observed while Run is in progress does
\* not stop the call, and the call eventually returns after invoking
\* EventRecorderFunc and then CompleteFunc: a call that is over after its
\* timeout was observed has returned, with the set hooks invoked in order.
C12_TimedOutRunReturns ==
    \A i \in Envs :
        (TimeoutObserved(i) /\ Done(i)) =>
            (pc[i] = "returned" /\ SetHooksInvokedInOrder(i))

\* C12 amended: Run has no cancellation path: a caller's timeout observed
\* while Run is in progress changes nothing in the call and never disables
\* its next step; provided OperationFunc and the hooks each return or
\* panic, the set hooks are eventually invoked, EventRecorderFunc before
\* CompleteFunc, and the call eventually ends: by returning when no hook
\* panicked, by the hook's own panic otherwise. Hooks can thus run after
\* the caller observed the timeout.
C12_TimedOutRunStillRunsToItsEnd ==
    /\ [][\A i \in Envs : CallerObservesTimeout(i) => UNCHANGED runVars]_vars
    /\ [](\A i \in Envs :
             (TimeoutObserved(i) /\ Running(i)) => ENABLED RunStep(i))
    /\ \A i \in Envs :
           (TimeoutObserved(i) /\ Running(i)) ~>
               /\ Done(i)
               /\ SetHooksInvokedInOrder(i)
               /\ NoHookPanicked(i) => pc[i] = "returned"
               /\ ~NoHookPanicked(i) => pc[i] = "panicked"

\* the timeout was observed before OperationFunc came back, and afterwards
\* both hooks ran and Run returned
C12_Witness ==
    \E i \in Envs :
        /\ TimeoutObserved(i)
        /\ timedOut[i].at = 0
        /\ pc[i] = "returned"
        /\ env[i] = AllSet
        /\ log[i] = FullOrder(i) \o <<"return">>
        /\ hookDid[i].event # "none" /\ hookDid[i].complete # "none"
----------------------------------------------------------------------------
(* C13 *)

\* the panic of OperationFunc was recovered into detailedErr, and
\* CompleteFunc has not assigned to it since
HoldsRecoveredPanic(i) ==
    /\ OpPanicked(i)
    /\ Count(log[i], "RecoverFromPanic") = 1
    /\ hookDid[i].complete \in {"none", "read"}

\* C13 as stated: an error Run returns is classified as a timeout only if
\* OperationFunc returned that very error in that slot, and the detailedErr
\* of a recovered panic is never classified as a timeout.
C13_ReturnedTimeoutComesFromOperationFunc ==
    \A i \in Envs :
        pc[i] = "returned" =>
            /\ IsOperationTimeOutError(result[i].eventErr) =>
                   (OpReturned(i) /\ result[i].eventErr = opOutcome[i].e1)
            /\ IsOperationTimeOutError(result[i].detailedErr) =>
                   (OpReturned(i) /\ result[i].detailedErr = opOutcome[i].e2)
            /\ OpPanicked(i) =>
                   ~IsOperationTimeOutError(result[i].detailedErr)

\* C13 amended: Run never produces a timed-out error itself: at every
\* moment of a call, a slot holds an error classified as a timeout only if
\* OperationFunc returned that very error in that slot or the slot's hook
\* assigned it through its pointer, and so for the errors Run returns; the
\* detailedErr a panic was recovered into is not classified as a timeout,
\* also when the panic value is itself an OperationTimedOutError, and
\* CompleteFunc observes it so.
C13_RunMakesNoTimeout ==
    \A i \in Envs :
        /\ (calls[i] > 0 /\ IsOperationTimeOutError(eventErr[i])) =>
               \/ hookDid[i].event = "write"
               \/ OpReturned(i) /\ eventErr[i] = opOutcome[i].e1
        /\ (calls[i] > 0 /\ IsOperationTimeOutError(detailedErr[i])) =>
               \/ hookDid[i].complete = "write"
               \/ OpReturned(i) /\ detailedErr[i] = opOutcome[i].e2
        /\ pc[i] = "returned" =>
               /\ result[i].eventErr = eventErr[i]
               /\ result[i].detailedErr = detailedErr[i]
        /\ HoldsRecoveredPanic(i) =>
               /\ detailedErr[i] # NilErr
               /\ ~IsOperationTimeOutError(detailedErr[i])
               /\ CompleteInvoked(i) =>
                      ~IsOperationTimeOutError(hookSaw[i].complete)

\* OperationFunc panicked with a value that is itself a timed-out error,
\* and Run returned a detailedErr derived from it that is not one
C13_Witness ==
    \E i \in Envs :
        /\ pc[i] = "returned" /\ OperationFuncPanicked(i)
        /\ IsOperationTimeOutError(opOutcome[i].v)
        /\ hookDid[i] = [event |-> "read", complete |-> "read"]
        /\ DerivedFrom(result[i].detailedErr, opOutcome[i].v)
        /\ ~IsOperationTimeOutError(result[i].detailedErr)
        /\ result[i].eventErr = NilErr
----------------------------------------------------------------------------
(* C14 *)

\* what a call of Run on envelope i has done so far
CallState(i) ==
    <<calls[i], pc[i], eventErr[i], detailedErr[i], deferred[i], panicking[i],
      opOutcome[i], hookSaw[i], hookDid[i], log[i], result[i], escaped[i]>>

\* C14: no step of Run changes a field of the envelope (name, OperationFunc,
\* EventRecorderFunc, CompleteFunc) or an OperationStatus value; and Run
\* reads neither the name nor an OperationStatus value: a change of either
\* made while Run is in progress changes nothing in the call, and the steps
\* of Run possible before it are the steps possible after it.
C14_RunLeavesEnvelopeAndStatusAlone ==
    /\ [][\A i \in Envs : Step(i) => (env' = env /\ status' = status)]_vars
    /\ [][\A i \in Envs :
             (CallerSetsOperationStatus
                \/ \E j \in Envs : CallerSetsOperationName(j)) =>
                 /\ CallState(i)' = CallState(i)
                 /\ (ENABLED Run(i))' = ENABLED Run(i)
                 /\ (ENABLED RunStep(i))' = ENABLED RunStep(i)]_vars

\* the last call of several returned, and the envelope holds the fields it
\* held before the first one
C14_Witness ==
    \E i \in Envs :
        /\ pc[i] = "returned" /\ calls[i] = MaxCalls
        /\ env[i].OperationName = "resize"
        /\ env[i].OperationFunc # "nil"
        /\ env[i].EventRecorderFunc = "nil"
        /\ env[i].CompleteFunc # "nil"
        /\ hookDid[i].complete # "none"
        /\ status = OperationInProgress
----------------------------------------------------------------------------
(* C15 *)

\* e is what OperationFunc left in the slot: the error it returned there,
\* or after its panic nil in eventErr and the recovery's error in detailedErr
LeftInEventErr(i, e) ==
    IF OpReturned(i) THEN e = opOutcome[i].e1 ELSE e = NilErr

LeftInDetailedErr(i, e) ==
    IF OpReturned(i) THEN e = opOutcome[i].e2 ELSE e # NilErr

\* C15: the value Run returns in a slot is the content of the slot after the
\* slot's hook has run: the value the hook assigned through its pointer if
\* it assigned, else the value the hook observed, which is the one
\* OperationFunc (or the recovery) left there; what a hook does to its slot
\* does not show in the other slot.
C15_RunReturnsSlotsAsHooksLeftThem ==
    \A i \in Envs :
        pc[i] = "returned" =>
            /\ result[i].eventErr = eventErr[i]
            /\ result[i].detailedErr = detailedErr[i]
            /\ hookDid[i].event = "write" =>
                   result[i].eventErr
                       \in HookAssigns(i, "event", env[i].EventRecorderFunc)
            /\ hookDid[i].complete = "write" =>
                   result[i].detailedErr
                       \in HookAssigns(i, "complete", env[i].CompleteFunc)
            /\ hookDid[i].event = "read" =>
                   /\ result[i].eventErr = hookSaw[i].event
                   /\ LeftInEventErr(i, result[i].eventErr)
            /\ hookDid[i].complete = "read" =>
                   /\ result[i].detailedErr = hookSaw[i].complete
                   /\ LeftInDetailedErr(i, result[i].detailedErr)
            /\ hookDid[i].event = "none" =>
                   LeftInEventErr(i, result[i].eventErr)
            /\ hookDid[i].complete = "none" =>
                   LeftInDetailedErr(i, result[i].detailedErr)

\* EventRecorderFunc replaced a non-nil eventErr, CompleteFunc only read:
\* Run returned the replacement and the detailedErr of OperationFunc
C15_Witness ==
    \E i \in Envs :
        /\ pc[i] = "returned" /\ OpReturned(i)
        /\ opOutcome[i].e1 # NilErr /\ opOutcome[i].e2 # NilErr
        /\ hookDid[i] = [event |-> "write", complete |-> "read"]
        /\ hookSaw[i].event = opOutcome[i].e1
        /\ result[i].eventErr # opOutcome[i].e1
        /\ result[i].eventErr
               \in HookAssigns(i, "event", env[i].EventRecorderFunc)
        /\ result[i].detailedErr = opOutcome[i].e2
----------------------------------------------------------------------------
(* C16 *)

NilOperationFunc(i) == calls[i] > 0 /\ env[i].OperationFunc = "nil"

\* C16 as stated: Run on an envelope whose OperationFunc is nil does not
\* crash the caller: it returns (nil, non-nil detailedErr), the set hooks
\* invoked once each, EventRecorderFunc before CompleteFunc.
C16_NilOperationFuncRunReturns ==
    \A i \in Envs :
        (NilOperationFunc(i) /\ Done(i)) =>
            /\ pc[i] = "returned"
            /\ result[i].eventErr = NilErr
            /\ result[i].detailedErr # NilErr
            /\ Count(log[i], "EventRecorderFunc")
                   = Expected(env[i].EventRecorderFunc)
            /\ Count(log[i], "CompleteFunc") = Expected(env[i].CompleteFunc)
            /\ ~Before(log[i], "CompleteFunc", "EventRecorderFunc")

\* C16 amended: the call of a nil OperationFunc panics after the hooks and
\* the recovery are registered and is handled like a panic of OperationFunc:
\* its panic never reaches the caller; it is recovered before any hook runs,
\* EventRecorderFunc observes a nil eventErr and CompleteFunc a non-nil
\* detailedErr derived from it; the set hooks are invoked once each,
\* EventRecorderFunc before CompleteFunc; if no hook panics Run returns,
\* with a nil eventErr unless EventRecorderFunc assigned and with that
\* detailedErr unless CompleteFunc assigned; a hook's own panic leaves Run.
C16_NilOperationFuncIsARecoveredPanic ==
    \A i \in Envs :
        NilOperationFunc(i) =>
            /\ Count(log[i], "OperationFunc") = 0
            /\ escaped[i] # NilFuncPanic
            /\ pc[i] \in {"exiting", "returned", "panicked"} =>
                   opOutcome[i].v = NilFuncPanic
            /\ (EventInvoked(i) \/ CompleteInvoked(i)) =>
                   /\ log[i][1] = "RecoverFromPanic"
                   /\ Count(log[i], "RecoverFromPanic") = 1
            /\ EventInvoked(i) => hookSaw[i].event = NilErr
            /\ CompleteInvoked(i) =>
                   /\ hookSaw[i].complete # NilErr
                   /\ DerivedFrom(hookSaw[i].complete, NilFuncPanic)
            /\ ~Before(log[i], "CompleteFunc", "EventRecorderFunc")
            /\ Done(i) =>
                   /\ Count(log[i], "EventRecorderFunc")
                          = Expected(env[i].EventRecorderFunc)
                   /\ Count(log[i], "CompleteFunc")
                          = Expected(env[i].CompleteFunc)
                   /\ NoHookPanicked(i) <=> pc[i] = "returned"
            /\ pc[i] = "returned" =>
                   /\ hookDid[i].event # "write" => result[i].eventErr = NilErr
                   /\ result[i].detailedErr # NilErr
                   /\ hookDid[i].complete # "write" =>
                          DerivedFrom(result[i].detailedErr, NilFuncPanic)
            /\ pc[i] = "panicked" =>
                   \E h \in {"event", "complete"} :
                       /\ hookDid[i][h] = "panic"
                       /\ escaped[i] \in {HookPanics(i, "event"),
                                          HookPanics(i, "complete")}

\* Run on an envelope with a nil OperationFunc and both hooks returned
\* (nil, non-nil detailedErr) after both hooks observed just that
C16_Witness ==
    \E i \in Envs :
        /\ NilOperationFunc(i) /\ pc[i] = "returned"
        /\ EventSet(i) /\ CompleteSet(i)
        /\ hookDid[i] = [event |-> "read", complete |-> "read"]
        /\ log[i] = <<"RecoverFromPanic", "EventRecorderFunc",
                      "CompleteFunc", "return">>
        /\ result[i].eventErr = NilErr
        /\ DerivedFrom(result[i].detailedErr, NilFuncPanic)
        /\ hookSaw[i].complete = result[i].detailedErr
----------------------------------------------------------------------------
(* C17 *)

EventPanicked(i) == hookDid[i].event = "panic"

\* C17: when EventRecorderFunc panics, a set CompleteFunc is still invoked,
\* exactly once and afterwards, and it observes detailedErr as OperationFunc
\* or the recovery left it: the recovery has run before EventRecorderFunc,
\* EventRecorderFunc's step leaves detailedErr alone, and CompleteFunc is
\* handed the slot as it is when it runs.
C17_CompleteFuncRunsAfterEventRecorderFuncPanics ==
    /\ \A i \in Envs :
           (EventPanicked(i) /\ CompleteSet(i)) ~>
               (EventPanicked(i) /\ CompleteInvoked(i) /\ Done(i))
    /\ [](\A i \in Envs :
             (EventPanicked(i) /\ CompleteSet(i)) =>
                 /\ Count(log[i], "RecoverFromPanic") = 1
                 /\ Before(log[i], "RecoverFromPanic", "EventRecorderFunc")
                 /\ Count(log[i], "CompleteFunc") <= 1
                 /\ ~Before(log[i], "CompleteFunc", "EventRecorderFunc")
                 /\ CompleteInvoked(i) <=> (Count(log[i], "CompleteFunc") = 1)
                 /\ Done(i) => CompleteInvoked(i)
                 /\ (CompleteInvoked(i) /\ OpReturned(i)) =>
                        hookSaw[i].complete = opOutcome[i].e2)
    /\ [][\A i \in Envs :
             /\ RunEventRecorderFunc(i) => detailedErr' = detailedErr
             /\ RunCompleteFunc(i) => hookSaw'[i].complete = detailedErr[i]]_vars

\* EventRecorderFunc panicked, and CompleteFunc then ran and observed the
\* non-nil detailedErr OperationFunc had returned
C17_Witness ==
    \E i \in Envs :
        /\ EventPanicked(i) /\ CompleteInvoked(i)
        /\ OpReturned(i) /\ opOutcome[i].e2 # NilErr
        /\ hookSaw[i].complete = opOutcome[i].e2
        /\ log[i] = FullOrder(i) \o <<"panic">>
        /\ pc[i] = "panicked"
============================================================================
